---------------------------- MODULE Spec2Model ----------------------------
(***************************************************************************)
(* A model of merge_recipes.py: the scan of a mods folder, the resolution  *)
(* of each archive's modid, the selection and parsing of its recipe        *)
(* entries, the extraction of output ids, the merge and the write of       *)
(* merged_recipes.json.                                                    *)
(*                                                                         *)
(* Python strings are modelled as sequences of one-character strings, so   *)
(* that startswith, endswith, re.split, re.search and lower are computed   *)
(* character by character.                                                 *)
(***************************************************************************)
EXTENDS Integers, Sequences, FiniteSets

VARIABLES
    pc,               \* position of main()
    argc,             \* len(sys.argv) - 1
    mods_folder,      \* sys.argv[1]
    dir_exists,       \* whether mods_folder names a directory
    dir_files,        \* os.listdir(mods_folder), in listing order (file ids)
    minecraft_jar,    \* the archive sys.argv[2] names (a base jar id)
    mod_jars,         \* main's mod_jars
    jar_idx,          \* index into mod_jars of the archive being processed
    cur_jar,          \* the archive the running extract_* call has open
    recipe_files,     \* recipe_files of the running extract_* call
    rf_idx,           \* index into recipe_files of the next entry
    recipes,          \* recipes of the running extract_* call
    all_mod_recipes,  \* main's all_mod_recipes
    merged,           \* main's merged
    out_file,         \* merged_recipes.json: [exists, written (by this run), content]
    listed,           \* history: os.listdir was called
    opened,           \* history: archives handed to zipfile.ZipFile
    parsed,           \* history: <<archive, entry>> pairs handed to json.load
    aborted,          \* history: archives whose extraction ended in the outer except
    fn_pc,            \* position of a single function application
    fn_arg,           \* its argument
    fn_ret            \* its return value

vars == <<pc, argc, mods_folder, dir_exists, dir_files, minecraft_jar, mod_jars,
          jar_idx, cur_jar, recipe_files, rf_idx, recipes, all_mod_recipes,
          merged, out_file, listed, opened, parsed, aborted,
          fn_pc, fn_arg, fn_ret>>

mainVars == <<pc, argc, mods_folder, dir_exists, dir_files, minecraft_jar,
              mod_jars, jar_idx, cur_jar, recipe_files, rf_idx, recipes,
              all_mod_recipes, merged, out_file, listed, opened, parsed, aborted>>

fnVars == <<fn_pc, fn_arg, fn_ret>>

---------------------------------------------------------------------------
(* Bounds of the model.                                                    *)

\* most file names in the mods folder listing
MaxDirFiles == 2
\* most words joined into a generated jar file name
MaxWords == 3
\* most elements of a generated "results" / "outputs" list
MaxElems == 2
\* most command-line arguments after the program name
MaxArgs == 3

---------------------------------------------------------------------------
(* String literals of the program.                                         *)

s_minecraft == <<"m", "i", "n", "e", "c", "r", "a", "f", "t">>
s_create == <<"c", "r", "e", "a", "t", "e">>
s_mekanism == <<"m", "e", "k", "a", "n", "i", "s", "m">>
s_immersiveengineering ==
    <<"i", "m", "m", "e", "r", "s", "i", "v", "e", "e", "n", "g", "i", "n", "e", "e", "r", "i", "n", "g">>
s_modern_industrialization ==
    <<"m", "o", "d", "e", "r", "n", "_", "i", "n", "d", "u", "s", "t", "r", "i", "a", "l", "i", "z", "a", "t", "i", "o", "n">>
s_minecolonies == <<"m", "i", "n", "e", "c", "o", "l", "o", "n", "i", "e", "s">>

MODID_WHITELIST ==
    { s_minecraft, s_create, s_mekanism, s_immersiveengineering,
      s_modern_industrialization, s_minecolonies }

s_mods_toml ==
    <<"M", "E", "T", "A", "-", "I", "N", "F", "/", "m", "o", "d", "s", ".", "t", "o", "m", "l">>
s_neoforge_mods_toml ==
    <<"M", "E", "T", "A", "-", "I", "N", "F", "/", "n", "e", "o", "f", "o", "r", "g", "e", ".", "m", "o", "d", "s", ".", "t", "o", "m", "l">>
s_data == <<"d", "a", "t", "a", "/">>
s_recipes == <<"/", "r", "e", "c", "i", "p", "e", "s", "/">>
s_recipe == <<"/", "r", "e", "c", "i", "p", "e", "/">>
s_json == <<".", "j", "s", "o", "n">>
s_jar == <<".", "j", "a", "r">>
s_vanilla_prefix ==
    <<"d", "a", "t", "a", "/", "m", "i", "n", "e", "c", "r", "a", "f", "t", "/", "r", "e", "c", "i", "p", "e", "s", "/">>

---------------------------------------------------------------------------
(* str methods, os.path and re, as the program uses them.                  *)

\* s.startswith(p)
StartsWith(s, p) == Len(p) <= Len(s) /\ SubSeq(s, 1, Len(p)) = p

\* s.endswith(p)
EndsWith(s, p) == Len(p) <= Len(s) /\ SubSeq(s, Len(s) - Len(p) + 1, Len(s)) = p

UpperCase == <<"A", "B", "C", "D", "E", "F", "G", "H", "I", "J", "K", "L", "M",
               "N", "O", "P", "Q", "R", "S", "T", "U", "V", "W", "X", "Y", "Z">>
LowerCase == <<"a", "b", "c", "d", "e", "f", "g", "h", "i", "j", "k", "l", "m",
               "n", "o", "p", "q", "r", "s", "t", "u", "v", "w", "x", "y", "z">>

LowerChar(c) ==
    IF \E i \in 1..Len(UpperCase) : UpperCase[i] = c
    THEN LowerCase[CHOOSE i \in 1..Len(UpperCase) : UpperCase[i] = c]
    ELSE c

\* s.lower()
Lower(s) == [i \in 1..Len(s) |-> LowerChar(s[i])]

\* os.path.join(a, b) for a relative b
PathJoin(a, b) ==
    IF a = <<>> \/ a[Len(a)] = "/" THEN a \o b ELSE a \o <<"/">> \o b

\* os.path.basename(p): what follows the last "/"
Basename(p) ==
    LET slashes == {i \in 1..Len(p) : p[i] = "/"}
        last == IF slashes = {} THEN 0
                ELSE CHOOSE i \in slashes : \A j \in slashes : j <= i
    IN SubSeq(p, last + 1, Len(p))

\* re.split(r'[-_]', s)[0]: what precedes the first "-" or "_"
SplitFirst(s) ==
    LET seps == {i \in 1..Len(s) : s[i] \in {"-", "_"}}
        first == IF seps = {} THEN Len(s) + 1
                 ELSE CHOOSE i \in seps : \A j \in seps : i <= j
    IN SubSeq(s, 1, first - 1)

\* the class \s of re
IsSpace(c) == c \in {" ", "\t", "\n", "\r", "\f"}

\* where a greedy \s* starting at i stops
SkipSpaces(s, i) ==
    CHOOSE j \in i..(Len(s) + 1) :
        /\ \A k \in i..(j - 1) : IsSpace(s[k])
        /\ (j = Len(s) + 1 \/ ~IsSpace(s[j]))

\* Python's None and a str value, as one shape
None == [some |-> FALSE, s |-> <<>>]
Str(s) == [some |-> TRUE, s |-> s]

\* the pattern id\s*=\s*"([^"]+)" tried at position i: its group(1), or None
MatchIdAt(s, i) ==
    IF ~(i + 1 <= Len(s) /\ s[i] = "i" /\ s[i + 1] = "d") THEN None
    ELSE LET j == SkipSpaces(s, i + 2) IN
         IF ~(j <= Len(s) /\ s[j] = "=") THEN None
         ELSE LET k == SkipSpaces(s, j + 1) IN
              IF ~(k <= Len(s) /\ s[k] = "\"") THEN None
              ELSE LET quotes == {q \in (k + 1)..Len(s) : s[q] = "\""} IN
                   IF quotes = {} THEN None
                   ELSE LET q == CHOOSE x \in quotes : \A y \in quotes : x <= y IN
                        IF q = k + 1 THEN None
                        ELSE Str(SubSeq(s, k + 1, q - 1))

\* detect_modid_from_toml: re.search takes the leftmost match
detect_modid_from_toml(toml_content) ==
    LET hits == {i \in 1..Len(toml_content) : MatchIdAt(toml_content, i).some} IN
    IF hits = {} THEN None
    ELSE MatchIdAt(toml_content, CHOOSE i \in hits : \A j \in hits : i <= j)

---------------------------------------------------------------------------
(* Archives.  An archive is [path, zip_ok, files]; zip_ok is whether       *)
(* zipfile.ZipFile(path) succeeds; files is namelist() with each entry's   *)
(* bytes: [name, decodes, text, json].  decodes/text describe the bytes as *)
(* UTF-8 text, json describes them as json.load sees them.                 *)

TomlPaths == <<s_mods_toml, s_neoforge_mods_toml>>

\* z.open(name): the entry called name (the last one, as zipfile keeps it), 0 for KeyError
ZipIndex(z, name) ==
    LET hits == {i \in 1..Len(z.files) : z.files[i].name = name} IN
    IF hits = {} THEN 0 ELSE CHOOSE i \in hits : \A j \in hits : j <= i

\* lines 31-39 of get_modid_from_jar: the loop over the two descriptor paths,
\* from the n-th on.  "ret": a modid was returned; "raise": decode() raised;
\* "fall": the loop ended without a return.
RECURSIVE TryTomls(_, _)
TryTomls(z, n) ==
    IF n > Len(TomlPaths) THEN [kind |-> "fall", modid |-> None]
    ELSE LET i == ZipIndex(z, TomlPaths[n]) IN
         IF i = 0 THEN TryTomls(z, n + 1)
         ELSE IF ~z.files[i].decodes THEN [kind |-> "raise", modid |-> None]
         ELSE LET m == detect_modid_from_toml(z.files[i].text) IN
              IF m.some /\ m.s # <<>> THEN [kind |-> "ret", modid |-> m]
              ELSE TryTomls(z, n + 1)

\* the fallback of get_modid_from_jar: the file name before the first "-" or "_", lower-cased
FallbackModidDashOnly(jar_path) ==
    LET filename == Basename(jar_path)
        dashes == {i \in 1..Len(filename) : filename[i] = "-"}
        first == IF dashes = {} THEN Len(filename) + 1
                 ELSE CHOOSE i \in dashes : \A j \in dashes : i <= j
    IN Lower(SubSeq(filename, 1, first - 1))

FallbackModid(jar_path) == Lower(SplitFirst(Basename(jar_path)))

get_modid_from_jar(jar) ==
    IF ~jar.zip_ok THEN None
    ELSE LET r == TryTomls(jar, 1) IN
         CASE r.kind = "ret" -> r.modid
           [] r.kind = "raise" -> None
           [] OTHER -> Str(FallbackModid(jar.path))

\* "if not modid"
Falsy(m) == ~m.some \/ m.s = <<>>

---------------------------------------------------------------------------
(* JSON values.  A value is [t, id, item, s, elems]: t its type; id and    *)
(* item what a dict holds under "id" and "item"; s a string's or a         *)
(* number's text; elems a list's elements.  What a dict holds under "id"   *)
(* or "item" is a scalar [t, s]: absent, null, a str, a number, or "dict"  *)
(* for a non-empty container.                                              *)

Cand(t, s) == [t |-> t, s |-> s]
CAbsent == Cand("absent", <<>>)
CNull == Cand("null", <<>>)
CStr(s) == Cand("str", s)
CNum(s) == Cand("num", s)
CDict == Cand("dict", <<>>)

J(t, id, item, s, elems) == [t |-> t, id |-> id, item |-> item, s |-> s, elems |-> elems]
JAbsent == J("absent", CAbsent, CAbsent, <<>>, <<>>)
JNull == J("null", CAbsent, CAbsent, <<>>, <<>>)
JStr(s) == J("str", CAbsent, CAbsent, s, <<>>)
JNum(s) == J("num", CAbsent, CAbsent, s, <<>>)
JDict(id, item) == J("dict", id, item, <<>>, <<>>)
JList(elems) == J("list", CAbsent, CAbsent, <<>>, elems)

TopKeys == {"result", "results", "output", "outputs"}

\* a parsed entry: top is the top-level type; has the keys of TopKeys a dict
\* holds (for a list or a str: those that "k in recipe_json" finds); fields their values
Json(top, has, fields) == [parses |-> TRUE, top |-> top, has |-> has, fields |-> fields]
NoFields == [k \in TopKeys |-> JAbsent]
BadJson == [parses |-> FALSE, top |-> "null", has |-> {}, fields |-> NoFields]
Obj(fields) == Json("dict", {k \in TopKeys : fields[k].t # "absent"}, fields)

\* bool(c) of what a dict holds under a key (None when the key is absent)
Truthy(c) ==
    CASE c.t = "str" -> c.s # <<>>
      [] c.t = "num" -> c.s # <<"0">>
      [] c.t = "dict" -> TRUE
      [] OTHER -> FALSE

\* d.get('id') or d.get('item'), then "if rid: outputs.append(rid)"
RidOf(d) ==
    LET rid == IF Truthy(d.id) THEN d.id ELSE d.item IN
    IF Truthy(rid) THEN <<rid>> ELSE <<>>

\* what iterating over a value yields: a list's elements, a dict's keys, a str's characters
Iter(v) ==
    CASE v.t = "list" -> v.elems
      [] v.t = "dict" -> (IF v.id.t # "absent" THEN <<JStr(<<"i", "d">>)>> ELSE <<>>)
                         \o (IF v.item.t # "absent" THEN <<JStr(<<"i", "t", "e", "m">>)>> ELSE <<>>)
      [] v.t = "str" -> [i \in 1..Len(v.s) |-> JStr(<<v.s[i]>>)]
      [] OTHER -> <<>>

Iterable(v) == v.t \in {"list", "dict", "str"}

RECURSIVE Flatten(_)
Flatten(ss) == IF ss = <<>> THEN <<>> ELSE Head(ss) \o Flatten(Tail(ss))

RECURSIVE SetToSeq(_)
SetToSeq(S) ==
    IF S = {} THEN <<>>
    ELSE LET x == CHOOSE y \in S : TRUE IN <<x>> \o SetToSeq(S \ {x})

IsString(o) == o.t = "str"

\* line 92: list(set(o for o in outputs if isinstance(o, str)))
DedupKeepAll(outputs) == SelectSeq(outputs, IsString)

Dedup(outputs) == SetToSeq({outputs[i] : i \in {j \in 1..Len(outputs) : IsString(outputs[j])}})

Returned(outputs) == [raised |-> FALSE, ids |-> Dedup(outputs)]
Raised == [raised |-> TRUE, ids |-> <<>>]

\* lines 61-64
ResultBranch(f) == Returned(RidOf(f["result"]))

\* lines 67-71: r.get raises on an element that is not a dict
ResultsBranch(f) ==
    LET rs == f["results"].elems IN
    IF \E i \in 1..Len(rs) : rs[i].t # "dict" THEN Raised
    ELSE Returned(Flatten([i \in 1..Len(rs) |-> RidOf(rs[i])]))

\* lines 84-89, for one element
OutOf(out) ==
    CASE out.t = "dict" -> RidOf(out)
      [] out.t = "str" -> <<CStr(out.s)>>
      [] OTHER -> <<>>

\* lines 73-80
OutputBranch(f) == Returned(OutOf(f["output"]))

\* lines 82-89: iterating over a number or null raises
OutputsBranch(f) ==
    LET os == f["outputs"] IN
    IF ~Iterable(os) THEN Raised
    ELSE Returned(Flatten([i \in 1..Len(Iter(os)) |-> OutOf(Iter(os)[i])]))

\* the if/elif chain of lines 61-89 on a dict
DictChainIfNotElif(r) ==
    LET f == r.fields
        rest == IF "results" \in r.has /\ f["results"].t = "list" THEN ResultsBranch(f)
                ELSE IF "output" \in r.has THEN OutputBranch(f)
                ELSE IF "outputs" \in r.has THEN OutputsBranch(f)
                ELSE Returned(<<>>)
    IN IF "result" \in r.has /\ f["result"].t = "dict"
       THEN (IF rest.raised THEN Raised ELSE Returned(ResultBranch(f).ids \o rest.ids))
       ELSE rest

DictChain(r) ==
    LET f == r.fields IN
    IF "result" \in r.has /\ f["result"].t = "dict" THEN ResultBranch(f)
    ELSE IF "results" \in r.has /\ f["results"].t = "list" THEN ResultsBranch(f)
    ELSE IF "output" \in r.has THEN OutputBranch(f)
    ELSE IF "outputs" \in r.has THEN OutputsBranch(f)
    ELSE Returned(<<>>)

\* extract_output_ids.  On a list or a str, "k in recipe_json" is a membership
\* test and recipe_json[k] then raises; on a number, a bool or null, "in" raises.
extract_output_ids(recipe_json) ==
    CASE recipe_json.top = "dict" -> DictChain(recipe_json)
      [] recipe_json.top \in {"list", "str"} ->
            IF recipe_json.has # {} THEN Raised ELSE Returned(<<>>)
      [] OTHER -> Raised

---------------------------------------------------------------------------
(* Inputs of the single-function specifications.                           *)

w_addon == <<"a", "d", "d", "o", "n">>
w_version == <<"1", ".", "2", ".", "3">>
w_Create == <<"C", "r", "e", "a", "t", "e">>
Words == {s_mekanism, w_addon, w_version, w_Create}
Separators == {"-", "_"}

\* file name stems of at most n words joined by "-" or "_"
RECURSIVE Stems(_)
Stems(n) ==
    IF n <= 1 THEN Words
    ELSE Stems(n - 1) \cup
         {st \o <<sep>> \o w : st \in Stems(n - 1), sep \in Separators, w \in Words}

GenFileNames ==
    {st \o s_jar : st \in Stems(MaxWords)}
    \cup {<<sep>> \o w \o s_jar : sep \in Separators, w \in Words}

MODS_FOLDERS == {<<"m", "-", "d">>, <<"m", "o", "d", "s", "/">>}

\* descriptor contents
toml_id_create == <<"i", "d", "=", "\"", "c", "r", "e", "a", "t", "e", "\"">>
toml_modId_create == <<"m", "o", "d", "I", "d", "=", "\"", "c", "r", "e", "a", "t", "e", "\"">>
toml_empty_then_Mek ==
    <<"i", "d", "=", "\"", "\"", "\n", "i", "d", "\t", "=", " ", "\"", "M", "e", "k", "\"">>

TextEntry(name, text) == [name |-> name, decodes |-> TRUE, text |-> text, json |-> BadJson]
BinaryEntry(name) == [name |-> name, decodes |-> FALSE, text |-> <<>>, json |-> BadJson]
JsonEntry(name, json) == [name |-> name, decodes |-> TRUE, text |-> <<>>, json |-> json]

\* what an archive may hold under one descriptor path: nothing, bytes that are
\* not UTF-8, or one of the contents above
TomlOptions(name) ==
    { <<>>, <<BinaryEntry(name)>>, <<TextEntry(name, toml_id_create)>>,
      <<TextEntry(name, toml_modId_create)>>, <<TextEntry(name, toml_empty_then_Mek)>> }

\* the same for the second descriptor path, read only when the first gave no id
SecondTomlOptions(name) ==
    { <<>>, <<BinaryEntry(name)>>, <<TextEntry(name, toml_empty_then_Mek)>> }

Jar(path, zip_ok, files) == [path |-> path, zip_ok |-> zip_ok, files |-> files]

GenJars ==
    {Jar(PathJoin(d, f), TRUE, a \o b) :
        d \in MODS_FOLDERS, f \in GenFileNames,
        a \in TomlOptions(s_mods_toml), b \in SecondTomlOptions(s_neoforge_mods_toml)}
    \cup {Jar(PathJoin(d, f), FALSE, <<>>) : d \in MODS_FOLDERS, f \in GenFileNames}

k_a == <<"a">>
k_b == <<"b">>

GenDicts ==
    {JDict(i, m) : i \in {CAbsent, CStr(k_a), CStr(<<>>), CNum(<<"7">>)},
                   m \in {CAbsent, CStr(k_a), CStr(k_b), CDict}}

GenElems ==
    {JDict(CStr(k_a), CAbsent), JDict(CNum(<<"7">>), CStr(k_b)), JStr(k_a), JNum(<<"7">>)}

RECURSIVE SeqsUpTo(_, _)
SeqsUpTo(S, n) ==
    IF n = 0 THEN {<<>>}
    ELSE SeqsUpTo(S, n - 1) \cup {Append(q, x) : q \in SeqsUpTo(S, n - 1), x \in S}

GenLists == {JList(q) : q \in SeqsUpTo(GenElems, MaxElems)}

GenValues == GenDicts \cup GenLists \cup {JStr(k_a), JStr(<<>>), JNum(<<"7">>), JNull}

GenSmallValues ==
    {JDict(CStr(k_a), CAbsent), JList(<<JDict(CAbsent, CStr(k_b))>>), JStr(k_a), JNum(<<"7">>)}

\* objects with at most two of the four keys, objects with all four, and
\* top-level values that are not objects
GenJson ==
    {Obj([k \in TopKeys |-> IF k = k1 THEN v1 ELSE IF k = k2 THEN v2 ELSE JAbsent]) :
        k1 \in TopKeys, k2 \in TopKeys, v1 \in GenValues, v2 \in GenValues \cup {JAbsent}}
    \cup {Obj(f) : f \in [TopKeys -> GenSmallValues]}
    \cup {Json(top, has, NoFields) : top \in {"list", "str"}, has \in SUBSET TopKeys}
    \cup {Json(top, {}, NoFields) : top \in {"num", "null", "bool"}}

---------------------------------------------------------------------------
(* The files main() may find: what the mods folder may list, and what      *)
(* sys.argv[2] may name.                                                   *)

k_foo == <<"c", "r", "e", "a", "t", "e", ":", "f", "o", "o">>
w_other == <<"o", "t", "h", "e", "r">>
w_Mek == <<"M", "e", "k">>

\* an entry path <top>/<ns><dir><file>
DataPath(ns, dir, file) == s_data \o ns \o dir \o file
F(c) == <<c>> \o s_json

With(k, v) == Obj([NoFields EXCEPT ![k] = v])
With2(k1, v1, k2, v2) == Obj([NoFields EXCEPT ![k1] = v1, ![k2] = v2])

file_create ==
    [ name |-> s_create \o <<"-", "1", ".", "0">> \o s_jar, zip_ok |-> TRUE,
      files |-> <<
        TextEntry(s_mods_toml, toml_id_create),
        JsonEntry(DataPath(s_create, s_recipes, F("f")),
                  With("result", JDict(CAbsent, CStr(k_foo)))),
        JsonEntry(DataPath(s_create, s_recipe, F("g")),
                  With("results", JList(<<JDict(CStr(k_a), CAbsent), JDict(CNum(<<"0">>), CStr(k_a))>>))),
        JsonEntry(DataPath(w_other, s_recipes, F("x")),
                  With("result", JDict(CStr(k_b), CAbsent))),
        JsonEntry(DataPath(s_create, s_recipes, <<"r", ".", "t", "x", "t">>),
                  With("result", JDict(CStr(k_b), CAbsent))),
        JsonEntry(DataPath(s_create, s_recipes, F("n")), Obj(NoFields)) >> ]

file_mekanism_addon ==
    [ name |-> s_mekanism \o <<"_">> \o w_addon \o <<"-">> \o w_version \o s_jar,
      zip_ok |-> TRUE,
      files |-> <<
        JsonEntry(DataPath(s_mekanism, s_recipes, F("m")), With("output", JStr(k_a))),
        JsonEntry(DataPath(s_mekanism, s_recipes, F("k")), BadJson),
        JsonEntry(DataPath(s_mekanism, s_recipe, <<"s", "/">> \o F("n")),
                  With2("result", JStr(k_b), "results", JList(<<JDict(CStr(k_b), CAbsent)>>))),
        JsonEntry(DataPath(s_mekanism \o <<"_">> \o w_addon, s_recipes, F("z")),
                  With("output", JStr(k_b))),
        JsonEntry(<<"x", "/">> \o DataPath(s_mekanism, s_recipes, F("q")),
                  With("output", JStr(k_b))) >> ]

file_addon ==
    [ name |-> w_addon \o <<"-", "1">> \o s_jar, zip_ok |-> TRUE,
      files |-> <<
        JsonEntry(DataPath(w_addon, s_recipes, F("z")),
                  With("result", JDict(CStr(k_a), CAbsent))),
        JsonEntry(DataPath(s_create, s_recipes, F("w")),
                  With("result", JDict(CStr(k_a), CAbsent))) >> ]

file_Create_x ==
    [ name |-> w_Create \o <<"_", "x">> \o s_jar, zip_ok |-> TRUE,
      files |-> <<
        TextEntry(s_mods_toml, toml_modId_create),
        TextEntry(s_neoforge_mods_toml, toml_empty_then_Mek),
        JsonEntry(DataPath(w_Mek, s_recipes, F("a")), With("output", JStr(k_b))),
        JsonEntry(DataPath(s_create, s_recipes, F("b")), With("output", JStr(k_b))) >> ]

file_mekanism_2 ==
    [ name |-> s_mekanism \o <<"-", "2">> \o s_jar, zip_ok |-> TRUE,
      files |-> <<
        JsonEntry(DataPath(s_mekanism, s_recipes, F("a")), With("output", JStr(k_b))),
        JsonEntry(DataPath(s_mekanism, s_recipes, F("b")), Json("num", {}, NoFields)),
        JsonEntry(DataPath(s_mekanism, s_recipes, F("c")), With("output", JStr(k_a))) >> ]

file_corrupt ==
    [ name |-> s_create \o <<"-", "c">> \o s_jar, zip_ok |-> FALSE, files |-> <<>> ]

file_notes ==
    [ name |-> s_create \o <<".", "t", "x", "t">>, zip_ok |-> TRUE,
      files |-> <<
        JsonEntry(DataPath(s_create, s_recipes, F("t")), With("output", JStr(k_a))) >> ]

file_binary_toml ==
    [ name |-> s_create \o <<"-", "b">> \o s_jar, zip_ok |-> TRUE,
      files |-> <<
        BinaryEntry(s_mods_toml),
        JsonEntry(DataPath(s_create, s_recipes, F("a")), With("output", JStr(k_a))) >> ]

ModFiles ==
    << file_create, file_mekanism_addon, file_addon, file_Create_x,
       file_mekanism_2, file_corrupt, file_notes, file_binary_toml >>

base_plural ==
    [ name |-> <<"1", ".", "2", "0">> \o s_jar, zip_ok |-> TRUE,
      files |-> <<
        JsonEntry(DataPath(s_minecraft, s_recipes, F("s")),
                  With("result", JDict(CAbsent, CStr(k_a)))),
        JsonEntry(DataPath(s_minecraft, s_recipes, F("k")), BadJson),
        JsonEntry(DataPath(s_minecraft, s_recipes, F("p")),
                  With("outputs", JList(<<JStr(k_b), JDict(CStr(k_a), CAbsent), JNum(<<"7">>)>>))),
        JsonEntry(DataPath(s_minecraft, <<"/", "l", "o", "o", "t", "/">>, F("x")),
                  With("result", JDict(CStr(k_b), CAbsent))) >> ]

base_singular ==
    [ name |-> <<"1", ".", "2", "1">> \o s_jar, zip_ok |-> TRUE,
      files |-> <<
        JsonEntry(DataPath(s_minecraft, s_recipe, F("s")),
                  With("result", JDict(CStr(k_a), CAbsent))),
        JsonEntry(DataPath(s_minecraft, s_recipes, F("o")),
                  With("result", JDict(CStr(k_b), CAbsent))) >> ]

base_raising ==
    [ name |-> <<"r">> \o s_jar, zip_ok |-> TRUE,
      files |-> <<
        JsonEntry(DataPath(s_minecraft, s_recipes, F("a")),
                  With("result", JDict(CStr(k_a), CAbsent))),
        JsonEntry(DataPath(s_minecraft, s_recipes, F("b")),
                  With("results", JList(<<JDict(CStr(k_b), CAbsent), JStr(k_b)>>))),
        JsonEntry(DataPath(s_minecraft, s_recipes, F("c")), With("output", JStr(k_b))) >> ]

base_corrupt == [ name |-> <<"c">> \o s_jar, zip_ok |-> FALSE, files |-> <<>> ]

BaseJars == << base_plural, base_singular, base_raising, base_corrupt >>

\* the archives of a run, by key: <<"mod", i>> is ModFiles[i] in the mods folder,
\* <<"base", i>> is BaseJars[i]
ModKey(i) == <<"mod", i>>
BaseKey(i) == <<"base", i>>
NoKey == <<"none", 0>>
FileOf(key) == IF key[1] = "mod" THEN ModFiles[key[2]] ELSE BaseJars[key[2]]
JarOf(key) ==
    LET f == FileOf(key) IN
    Jar(IF key[1] = "mod" THEN PathJoin(mods_folder, f.name) ELSE f.name, f.zip_ok, f.files)

\* the record json.load returns for entry i of an archive, named by where it came from
Rec(key, i) == <<key[1], key[2], i>>

\* listings of the mods folder: at most n distinct files, in any order
RECURSIVE Listings(_)
Listings(n) ==
    IF n = 0 THEN {<<>>}
    ELSE Listings(n - 1) \cup
         UNION {{Append(q, i) : i \in {j \in 1..Len(ModFiles) : \A x \in 1..Len(q) : q[x] # j}} :
                    q \in {l \in Listings(n - 1) : Len(l) = n - 1}}

---------------------------------------------------------------------------
(* The functions main() calls.                                             *)

\* {}
EmptyDict == [k \in {} |-> <<>>]

\* get_all_recipe_files
get_all_recipe_files(z, modid) ==
    LET prefixes == <<s_data \o modid \o s_recipes, s_data \o modid \o s_recipe>>
        names == [i \in 1..Len(z.files) |-> z.files[i].name]
        Selected(f) == /\ \E p \in 1..Len(prefixes) : StartsWith(f, prefixes[p])
                       /\ EndsWith(f, s_json)
    IN SelectSeq(names, Selected)

\* line 137-138 of extract_vanilla_recipes_from_jar
vanilla_recipe_files(z) ==
    LET names == [i \in 1..Len(z.files) |-> z.files[i].name]
        Selected(f) == StartsWith(f, s_vanilla_prefix) /\ EndsWith(f, s_json)
    IN SelectSeq(names, Selected)

\* lines 126-128: recipes[out_id].append(recipe_json), the list created when missing
PutReplace(d, k, rec) == [x \in DOMAIN d \cup {k} |-> IF x = k THEN <<rec>> ELSE d[x]]

Put(d, k, rec) ==
    [x \in DOMAIN d \cup {k} |-> IF x \in DOMAIN d
                                 THEN (IF x = k THEN Append(d[x], rec) ELSE d[x])
                                 ELSE <<rec>>]

\* lines 120-128: the loop over output_ids
RECURSIVE AppendAll(_, _, _)
AppendAll(d, output_ids, rec) ==
    IF output_ids = <<>> THEN d
    ELSE LET out_id == Head(output_ids) IN
         AppendAll(IF out_id.t = "dict" THEN d ELSE Put(d, out_id, rec),
                   Tail(output_ids), rec)

\* merge_recipe_dicts
RECURSIVE merge_recipe_dicts(_)
merge_recipe_dicts(dicts) ==
    IF dicts = <<>> THEN EmptyDict
    ELSE LET m == merge_recipe_dicts(SubSeq(dicts, 1, Len(dicts) - 1))
             d == dicts[Len(dicts)]
         IN [k \in DOMAIN m \cup DOMAIN d |->
                (IF k \in DOMAIN m THEN m[k] ELSE <<>>)
                \o (IF k \in DOMAIN d THEN d[k] ELSE <<>>)]

\* line 168: len(sys.argv) != 3 prints the usage and returns
ValidArgCountAtLeast(n) == n >= 2

ValidArgCount(n) == n = 2

\* lines 100-105: no modid, or a modid outside the whitelist, returns the empty recipes
SkippedOnlyWithoutModid(modid) == Falsy(modid)

Skipped(modid) == Falsy(modid) \/ modid.s \notin MODID_WHITELIST

\* lines 110-117 (and 141-148): what one iteration does with an entry.  "skip":
\* json.load raised, the inner except continues; "abort": extract_output_ids
\* raised, which only the outer except catches; "append": lines 117-128
EntryOutcomeParseErrorAborts(recipe_json) ==
    IF ~recipe_json.parses THEN "abort"
    ELSE IF extract_output_ids(recipe_json).raised THEN "abort"
    ELSE "append"

EntryOutcomeRaiseSkips(recipe_json) ==
    IF ~recipe_json.parses THEN "skip"
    ELSE IF extract_output_ids(recipe_json).raised THEN "skip"
    ELSE "append"

EntryOutcome(recipe_json) ==
    IF ~recipe_json.parses THEN "skip"
    ELSE IF extract_output_ids(recipe_json).raised THEN "abort"
    ELSE "append"

---------------------------------------------------------------------------
(* main().                                                                 *)

\* no single function application is under way
FnIdle == fn_pc = "idle" /\ fn_arg = <<>> /\ fn_ret = <<>>

Init ==
    /\ pc = "start"
    /\ argc \in 0..MaxArgs
    /\ mods_folder \in MODS_FOLDERS
    /\ dir_exists \in BOOLEAN
    /\ dir_files \in (IF dir_exists THEN Listings(MaxDirFiles) ELSE {<<>>})
    /\ minecraft_jar \in 1..Len(BaseJars)
    /\ mod_jars = <<>> /\ jar_idx = 0 /\ cur_jar = NoKey
    /\ recipe_files = <<>> /\ rf_idx = 0 /\ recipes = EmptyDict
    /\ all_mod_recipes = <<>> /\ merged = EmptyDict
    /\ out_file \in {[exists |-> e, written |-> FALSE, content |-> EmptyDict] : e \in BOOLEAN}
    /\ listed = FALSE /\ opened = {} /\ parsed = {} /\ aborted = {}
    /\ FnIdle

histVars == <<listed, opened, parsed, aborted>>
inputVars == <<argc, mods_folder, dir_exists, dir_files, minecraft_jar>>
loopVars == <<cur_jar, recipe_files, rf_idx, recipes>>

\* lines 168-173: the argument count
CheckArgs ==
    /\ pc = "start"
    /\ pc' = IF ~ValidArgCount(argc) THEN "usage" ELSE "listdir"
    /\ UNCHANGED <<inputVars, mod_jars, jar_idx, loopVars, all_mod_recipes, merged,
                   out_file, histVars, fnVars>>

\* lines 175-178: os.listdir raises when the folder is missing, and main() does not catch it
ListMods ==
    /\ pc = "listdir"
    /\ listed' = TRUE
    /\ IF dir_exists
       THEN /\ mod_jars' = LET IsJar(i) == EndsWith(ModFiles[i].name, s_jar)
                           IN SelectSeq(dir_files, IsJar)
            /\ jar_idx' = 1
            /\ pc' = "mods"
       ELSE /\ pc' = "crashed"
            /\ UNCHANGED <<mod_jars, jar_idx>>
    /\ UNCHANGED <<inputVars, loopVars, all_mod_recipes, merged, out_file,
                   opened, parsed, aborted, fnVars>>

\* lines 181-183, after extract_recipes_from_zip returned r for mod_jars[jar_idx]
ModReturn(r) ==
    /\ all_mod_recipes' = IF DOMAIN r # {} THEN Append(all_mod_recipes, r) ELSE all_mod_recipes
    /\ jar_idx' = jar_idx + 1
    /\ pc' = "mods"
    /\ cur_jar' = NoKey /\ recipe_files' = <<>> /\ rf_idx' = 0 /\ recipes' = EmptyDict

\* lines 96-108: extract_recipes_from_zip up to its loop
OpenModJar ==
    /\ pc = "mods" /\ jar_idx <= Len(mod_jars)
    /\ LET key == ModKey(mod_jars[jar_idx])
           jar == JarOf(key)
           modid == get_modid_from_jar(jar)
       IN /\ opened' = opened \cup {key}
          /\ IF ~jar.zip_ok \/ Skipped(modid)
             THEN ModReturn(EmptyDict)
             ELSE /\ cur_jar' = key
                  /\ recipe_files' = get_all_recipe_files(jar, modid.s)
                  /\ rf_idx' = 1
                  /\ recipes' = EmptyDict
                  /\ pc' = "mod_entries"
                  /\ UNCHANGED <<jar_idx, all_mod_recipes>>
    /\ UNCHANGED <<inputVars, mod_jars, merged, out_file, listed, parsed, aborted, fnVars>>

\* lines 109-128: one iteration of the loop over recipe_files.  A parse error
\* continues the loop; an exception of extract_output_ids leaves it through
\* the except of line 129, and line 131 returns what recipes holds.
ModEntry ==
    /\ pc = "mod_entries" /\ rf_idx <= Len(recipe_files)
    /\ LET jar == JarOf(cur_jar)
           i == ZipIndex(jar, recipe_files[rf_idx])
           recipe_json == jar.files[i].json
           outcome == EntryOutcome(recipe_json)
       IN /\ parsed' = parsed \cup {Rec(cur_jar, i)}
          /\ IF outcome = "skip"
             THEN /\ rf_idx' = rf_idx + 1
                  /\ UNCHANGED <<cur_jar, recipe_files, recipes, pc, jar_idx,
                                 all_mod_recipes, aborted>>
             ELSE IF outcome = "abort"
             THEN /\ aborted' = aborted \cup {cur_jar}
                  /\ ModReturn(recipes)
             ELSE /\ recipes' = AppendAll(recipes, extract_output_ids(recipe_json).ids,
                                          Rec(cur_jar, i))
                  /\ rf_idx' = rf_idx + 1
                  /\ UNCHANGED <<cur_jar, recipe_files, pc, jar_idx,
                                 all_mod_recipes, aborted>>
    /\ UNCHANGED <<inputVars, mod_jars, merged, out_file, listed, opened, fnVars>>

\* line 131 after the last entry, then lines 182-183
ModJarDone ==
    /\ pc = "mod_entries" /\ rf_idx > Len(recipe_files)
    /\ ModReturn(recipes)
    /\ UNCHANGED <<inputVars, mod_jars, merged, out_file, histVars, fnVars>>

\* lines 186-187, after extract_vanilla_recipes_from_jar returned r
VanillaReturn(r) ==
    /\ all_mod_recipes' = IF DOMAIN r # {} THEN Append(all_mod_recipes, r) ELSE all_mod_recipes
    /\ pc' = "merge"
    /\ cur_jar' = NoKey /\ recipe_files' = <<>> /\ rf_idx' = 0 /\ recipes' = EmptyDict

\* line 185 and lines 134-139: extract_vanilla_recipes_from_jar up to its loop
OpenVanillaJar ==
    /\ pc = "mods" /\ jar_idx > Len(mod_jars)
    /\ LET key == BaseKey(minecraft_jar)
           jar == JarOf(key)
       IN /\ opened' = opened \cup {key}
          /\ IF ~jar.zip_ok
             THEN VanillaReturn(EmptyDict)
             ELSE /\ cur_jar' = key
                  /\ recipe_files' = vanilla_recipe_files(jar)
                  /\ rf_idx' = 1
                  /\ recipes' = EmptyDict
                  /\ pc' = "vanilla_entries"
                  /\ UNCHANGED all_mod_recipes
    /\ UNCHANGED <<inputVars, mod_jars, jar_idx, merged, out_file, listed, parsed,
                   aborted, fnVars>>

\* lines 140-155: one iteration of the loop of extract_vanilla_recipes_from_jar
VanillaEntry ==
    /\ pc = "vanilla_entries" /\ rf_idx <= Len(recipe_files)
    /\ LET jar == JarOf(cur_jar)
           i == ZipIndex(jar, recipe_files[rf_idx])
           recipe_json == jar.files[i].json
           outcome == EntryOutcome(recipe_json)
       IN /\ parsed' = parsed \cup {Rec(cur_jar, i)}
          /\ IF outcome = "skip"
             THEN /\ rf_idx' = rf_idx + 1
                  /\ UNCHANGED <<cur_jar, recipe_files, recipes, pc, all_mod_recipes, aborted>>
             ELSE IF outcome = "abort"
             THEN /\ aborted' = aborted \cup {cur_jar}
                  /\ VanillaReturn(recipes)
             ELSE /\ recipes' = AppendAll(recipes, extract_output_ids(recipe_json).ids,
                                          Rec(cur_jar, i))
                  /\ rf_idx' = rf_idx + 1
                  /\ UNCHANGED <<cur_jar, recipe_files, pc, all_mod_recipes, aborted>>
    /\ UNCHANGED <<inputVars, mod_jars, jar_idx, merged, out_file, listed, opened, fnVars>>

\* line 158 after the last entry, then lines 186-187
VanillaDone ==
    /\ pc = "vanilla_entries" /\ rf_idx > Len(recipe_files)
    /\ VanillaReturn(recipes)
    /\ UNCHANGED <<inputVars, mod_jars, jar_idx, merged, out_file, histVars, fnVars>>

\* lines 189-196: the merge and the write of merged_recipes.json
MergeAndWrite ==
    /\ pc = "merge"
    /\ merged' = merge_recipe_dicts(all_mod_recipes)
    /\ out_file' = [exists |-> TRUE, written |-> TRUE, content |-> merged']
    /\ pc' = "done"
    /\ UNCHANGED <<inputVars, mod_jars, jar_idx, loopVars, all_mod_recipes, histVars, fnVars>>

Next ==
    \/ CheckArgs
    \/ ListMods
    \/ OpenModJar
    \/ ModEntry
    \/ ModJarDone
    \/ OpenVanillaJar
    \/ VanillaEntry
    \/ VanillaDone
    \/ MergeAndWrite

Spec == Init /\ [][Next]_vars

---------------------------------------------------------------------------
(* The state of main() while a single function is applied, and the other   *)
(* way round.                                                              *)


MainIdleButRecipes ==
    /\ pc = "idle" /\ argc = 0 /\ mods_folder = <<>> /\ dir_exists = FALSE
    /\ dir_files = <<>> /\ minecraft_jar = 0 /\ mod_jars = <<>> /\ jar_idx = 0
    /\ cur_jar = <<"none", 0>> /\ recipe_files = <<>> /\ rf_idx = 0
    /\ all_mod_recipes = <<>> /\ merged = EmptyDict
    /\ out_file = [exists |-> FALSE, written |-> FALSE, content |-> EmptyDict]
    /\ listed = FALSE /\ opened = {} /\ parsed = {} /\ aborted = {}

MainIdle == MainIdleButRecipes /\ recipes = EmptyDict

\* get_modid_from_jar applied to one archive
InitModid == MainIdle /\ fn_pc = "call" /\ fn_arg \in GenJars /\ fn_ret = None

ApplyModid ==
    /\ fn_pc = "call"
    /\ fn_ret' = get_modid_from_jar(fn_arg)
    /\ fn_pc' = "ret"
    /\ UNCHANGED <<fn_arg, mainVars>>

SpecModid == InitModid /\ [][ApplyModid]_vars

\* extract_output_ids applied to one parsed entry, then lines 117-128 applied
\* to what it returned, on a recipes that already holds a record
ProbeRec == <<"probe", 0, 2>>
EarlierRec == <<"probe", 0, 1>>

InitExtract ==
    /\ MainIdleButRecipes
    /\ recipes = Put(EmptyDict, CStr(k_a), EarlierRec)
    /\ fn_pc = "call" /\ fn_arg \in GenJson /\ fn_ret = Raised

ApplyExtract ==
    /\ fn_pc = "call"
    /\ fn_ret' = extract_output_ids(fn_arg)
    /\ fn_pc' = "ret"
    /\ UNCHANGED <<fn_arg, mainVars>>

ApplyAppend ==
    /\ fn_pc = "ret" /\ ~fn_ret.raised
    /\ recipes' = AppendAll(recipes, fn_ret.ids, ProbeRec)
    /\ fn_pc' = "stored"
    /\ UNCHANGED <<fn_arg, fn_ret, pc, argc, mods_folder, dir_exists, dir_files,
                   minecraft_jar, mod_jars, jar_idx, cur_jar, recipe_files, rf_idx,
                   all_mod_recipes, merged, out_file, listed, opened, parsed, aborted>>

\* lines 182-183 and 189: the recipes returned, merged after another archive's
ApplyMerge ==
    /\ fn_pc = "stored"
    /\ all_mod_recipes' = IF DOMAIN recipes # {}
                           THEN <<Put(EmptyDict, CStr(k_b), EarlierRec), recipes>>
                           ELSE <<Put(EmptyDict, CStr(k_b), EarlierRec)>>
    /\ merged' = merge_recipe_dicts(all_mod_recipes')
    /\ fn_pc' = "merged"
    /\ UNCHANGED <<fn_arg, fn_ret, pc, argc, mods_folder, dir_exists, dir_files,
                   minecraft_jar, mod_jars, jar_idx, cur_jar, recipe_files, rf_idx,
                   recipes, out_file, listed, opened, parsed, aborted>>

NextExtract == ApplyExtract \/ ApplyAppend \/ ApplyMerge

SpecExtract == InitExtract /\ [][NextExtract]_vars

---------------------------------------------------------------------------
(* Properties of get_modid_from_jar (SpecModid).                           *)

mekanism_addon_jar == s_mekanism \o <<"_">> \o w_addon \o <<"-">> \o w_version \o s_jar

\* an archive that opens, holds neither descriptor and is called mekanism_addon-1.2.3.jar
IsAddonJar(jar) ==
    /\ jar.zip_ok
    /\ ZipIndex(jar, s_mods_toml) = 0 /\ ZipIndex(jar, s_neoforge_mods_toml) = 0
    /\ Basename(jar.path) = mekanism_addon_jar

\* C4 as stated: the archive mekanism_addon-1.2.3.jar without a descriptor
\* resolves to the namespace "mekanism_addon".
C4_AsStated ==
    (fn_pc = "ret" /\ IsAddonJar(fn_arg))
        => fn_ret = Str(s_mekanism \o <<"_">> \o w_addon)

\* C4 amended: the archive mekanism_addon-1.2.3.jar without a descriptor resolves
\* to "mekanism", the file name up to its first "-" or "_".
C4_ResolvesToMekanism ==
    (fn_pc = "ret" /\ IsAddonJar(fn_arg)) => fn_ret = Str(s_mekanism)

C4_Witness == fn_pc = "ret" /\ IsAddonJar(fn_arg) /\ fn_ret.some

---------------------------------------------------------------------------
(* Properties of extract_output_ids (SpecExtract).                         *)

Priority == <<"result", "results", "output", "outputs">>

Range(q) == {q[i] : i \in 1..Len(q)}

\* the record with only key k kept
Only(r, k) == Obj([x \in TopKeys |-> IF x = k THEN r.fields[x] ELSE JAbsent])

\* the first key of the priority order the record holds
FirstPresent(r) ==
    Priority[CHOOSE i \in 1..4 : Priority[i] \in r.has
                                 /\ \A j \in 1..(i - 1) : Priority[j] \notin r.has]

\* whether the branch of key k is taken when the chain reaches it
Applies(r, k) ==
    /\ k \in r.has
    /\ k = "result" => r.fields[k].t = "dict"
    /\ k = "results" => r.fields[k].t = "list"

\* the strings a dict's "id"/"item" lookup yields
RidStrings(d) == {c \in Range(RidOf(d)) : c.t = "str"}

\* C8 as stated: on an object that holds both result and results, whatever the
\* types of their values, result is the first key in the order result, results,
\* output, outputs, the outcome is that of the object cut down to result, and
\* the keys returned are those result names.
C8_AsStated ==
    (fn_pc = "ret" /\ fn_arg.top = "dict" /\ {"result", "results"} \subseteq fn_arg.has)
        => /\ FirstPresent(fn_arg) = "result"
           /\ fn_ret = extract_output_ids(Only(fn_arg, "result"))
           /\ ~fn_ret.raised
           /\ Range(fn_ret.ids) = RidStrings(fn_arg.fields["result"])

\* C8 amended: a key is consulted only when it is the first, in that order, whose
\* branch applies (result holding an object, results holding a list, output,
\* outputs); with a result that is an object, the keys are those of result alone,
\* whatever else the record holds; a result that is not an object is passed over.
C8_FirstApplicableOnly ==
    (fn_pc = "ret" /\ fn_arg.top = "dict")
        => LET app == {i \in 1..4 : Applies(fn_arg, Priority[i])} IN
           IF app = {} THEN fn_ret = Returned(<<>>)
           ELSE LET k == Priority[CHOOSE i \in app : \A j \in app : i <= j] IN
                /\ fn_ret = extract_output_ids(Only(fn_arg, k))
                /\ k = "result"
                     => (~fn_ret.raised
                         /\ Range(fn_ret.ids) = RidStrings(fn_arg.fields["result"]))

\* result is an object naming one key, results is a list naming another
C8_Witness ==
    /\ fn_pc = "ret" /\ fn_arg.top = "dict"
    /\ {"result", "results"} \subseteq fn_arg.has
    /\ fn_arg.fields["result"].t = "dict" /\ fn_arg.fields["results"].t = "list"
    /\ RidStrings(fn_arg.fields["result"]) = {CStr(k_a)}
    /\ \E i \in 1..Len(fn_arg.fields["results"].elems) :
           fn_arg.fields["results"].elems[i] = JDict(CNum(<<"7">>), CStr(k_b))
    /\ Range(fn_ret.ids) = {CStr(k_a)}

\* how often rec stands in list q
Count(q, rec) == Cardinality({i \in 1..Len(q) : q[i] = rec})

\* the dict holds only string keys, and the probed record once under each key
\* extract_output_ids returned for it and under no other
HoldsOncePerKey(d) ==
    /\ \A k \in DOMAIN d : k.t = "str"
    /\ \A k \in DOMAIN d : Count(d[k], ProbeRec) = IF k \in Range(fn_ret.ids) THEN 1 ELSE 0
    /\ \A k \in Range(fn_ret.ids) : k \in DOMAIN d
    /\ fn_ret.ids = <<>> => \A k \in DOMAIN d : Count(d[k], ProbeRec) = 0

\* C9: on an object, what extract_output_ids returns holds only strings and no
\* string twice; so after lines 117-128, and after the merge, every key of
\* recipes and of merged is a string, the record stands exactly once under each
\* key it names and under no other, and a record that names no key is stored
\* nowhere.
C9_StringKeysOnce ==
    /\ (fn_pc \in {"ret", "stored", "merged"} /\ fn_arg.top = "dict" /\ ~fn_ret.raised)
         => /\ \A i \in 1..Len(fn_ret.ids) : fn_ret.ids[i].t = "str"
            /\ \A i, j \in 1..Len(fn_ret.ids) : fn_ret.ids[i] = fn_ret.ids[j] => i = j
    /\ (fn_pc \in {"stored", "merged"} /\ fn_arg.top = "dict") => HoldsOncePerKey(recipes)
    /\ (fn_pc = "merged" /\ fn_arg.top = "dict") => HoldsOncePerKey(merged)

\* a results list that names the same id twice, stored and merged once under it
C9_Witness ==
    /\ fn_pc = "merged" /\ fn_arg.top = "dict"
    /\ "results" \in fn_arg.has /\ "result" \notin fn_arg.has
    /\ fn_arg.fields["results"] =
          JList(<<JDict(CStr(k_a), CAbsent), JDict(CStr(k_a), CAbsent)>>)
    /\ DOMAIN recipes = {CStr(k_a)}
    /\ Count(recipes[CStr(k_a)], ProbeRec) = 1
    /\ Count(merged[CStr(k_a)], ProbeRec) = 1

---------------------------------------------------------------------------
(* Properties of main() (Spec).                                            *)

\* the namespace get_modid_from_jar resolves for file i of the mods folder
Resolved(i) == get_modid_from_jar(JarOf(ModKey(i)))

OutsideWhitelist(i) == ~Resolved(i).some \/ Resolved(i).s \notin MODID_WHITELIST

\* the records a dict holds
RecsOf(d) == UNION {Range(d[k]) : k \in DOMAIN d}

\* the records held anywhere on the way to the output, and in it
Stored ==
    RecsOf(recipes) \cup RecsOf(merged) \cup RecsOf(out_file.content)
    \cup UNION {RecsOf(all_mod_recipes[x]) : x \in 1..Len(all_mod_recipes)}

KeyOfRec(r) == <<r[1], r[2]>>
EntryJson(r) == FileOf(KeyOfRec(r)).files[r[3]].json

\* the keys extract_output_ids returns for record r, none when it does not parse or raises
KeysNamed(r) ==
    IF EntryJson(r).parses /\ ~extract_output_ids(EntryJson(r)).raised
    THEN Range(extract_output_ids(EntryJson(r)).ids) ELSE {}

\* an archive whose entries the run goes through: it opens and, in the mods
\* folder, resolves to a whitelisted namespace
GoneThrough(key) ==
    /\ key \in opened /\ FileOf(key).zip_ok
    /\ key[1] = "mod" => ~OutsideWhitelist(key[2])

\* the entries selected in such an archive, as indexes, in namelist order
SelectedIn(key) ==
    LET jar == JarOf(key)
        names == IF key[1] = "mod" THEN get_all_recipe_files(jar, Resolved(key[2]).s)
                 ELSE vanilla_recipe_files(jar)
    IN [p \in 1..Len(names) |-> ZipIndex(jar, names[p])]

\* the entry parses and extract_output_ids raises on it
RaisesOn(r) == EntryJson(r).parses /\ extract_output_ids(EntryJson(r)).raised

\* C1: no record of an archive of the mods folder whose resolved namespace is
\* missing or outside the whitelist is held in recipes, all_mod_recipes, merged
\* or the written file, in any state of any run.
C1_NonWhitelistedDropped ==
    \A r \in Stored : r[1] = "mod" => ~OutsideWhitelist(r[2])

\* a run that went through a non-whitelisted archive holding recipe entries
\* before a whitelisted one, and wrote a non-empty output
C1_Witness ==
    /\ pc = "done" /\ out_file.written /\ DOMAIN out_file.content # {}
    /\ Len(mod_jars) = 2
    /\ OutsideWhitelist(mod_jars[1]) /\ ~OutsideWhitelist(mod_jars[2])
    /\ ModKey(mod_jars[1]) \in opened
    /\ \E e \in 1..Len(ModFiles[mod_jars[1]].files) :
           KeysNamed(<<"mod", mod_jars[1], e>>) # {}

\* C2: when the run is done, every record that was parsed and names key k stands
\* in the list under k, in merged and in the written file, and that list is at
\* least as long as the number of such records.
C2_AppendNeverReplaces ==
    pc = "done" =>
        \A r \in parsed : \A k \in KeysNamed(r) :
            /\ k \in DOMAIN merged /\ r \in Range(merged[k])
            /\ k \in DOMAIN out_file.content /\ r \in Range(out_file.content[k])
            /\ Len(merged[k]) >= Cardinality({r2 \in parsed : k \in KeysNamed(r2)})

\* one key with records of two mod archives and two records of the base archive
C2_Witness ==
    /\ pc = "done"
    /\ \E k \in DOMAIN merged :
          /\ \E a, b \in Range(merged[k]) : a[1] = "mod" /\ b[1] = "mod" /\ a[2] # b[2]
          /\ \E a, b \in Range(merged[k]) : a[1] = "base" /\ b[1] = "base" /\ a[3] # b[3]

\* C3: an entry that does not parse is stored nowhere and stops nothing: when
\* the run is done the file is written, and in every archive gone through,
\* every selected entry that no raising entry precedes was parsed and stands
\* under every key it names, whether or not malformed entries precede it; and
\* no state follows a malformed entry in which the run has crashed.
C3_MalformedEntrySkipped ==
    /\ \A r \in parsed : ~EntryJson(r).parses => r \notin Stored
    /\ (\E r \in parsed : ~EntryJson(r).parses) => pc \notin {"crashed", "usage"}
    /\ pc = "done" =>
          /\ out_file.written
          /\ \A key \in {x \in opened : GoneThrough(x)} :
                LET sel == SelectedIn(key) IN
                \A p \in 1..Len(sel) :
                    (\A q \in 1..(p - 1) : ~RaisesOn(Rec(key, sel[q])))
                        => /\ Rec(key, sel[p]) \in parsed
                           /\ \A k \in KeysNamed(Rec(key, sel[p])) :
                                 /\ k \in DOMAIN out_file.content
                                 /\ Rec(key, sel[p]) \in Range(out_file.content[k])

\* a malformed entry between two entries of its archive that both reached the file
C3_Witness ==
    /\ pc = "done" /\ out_file.written
    /\ \E r \in parsed :
          /\ ~EntryJson(r).parses
          /\ \E a, b \in RecsOf(out_file.content) :
                /\ KeyOfRec(a) = KeyOfRec(r) /\ KeyOfRec(b) = KeyOfRec(r)
                /\ a[3] < r[3] /\ r[3] < b[3]

\* C5 as stated: with two arguments and a missing mods folder, the listing is
\* empty and the run does not fail.
C5_AsStated ==
    (argc = 2 /\ ~dir_exists /\ listed) => (pc # "crashed" /\ mod_jars = <<>>)

\* C6: with an argument count other than 2 the run ends at the usage message,
\* having listed nothing, opened nothing, parsed nothing and left
\* merged_recipes.json alone; with 2, a run that is done has written merged to
\* merged_recipes.json.
C6_UsageOrWrite ==
    /\ argc # 2 =>
          /\ pc \in {"start", "usage"}
          /\ ~listed /\ opened = {} /\ parsed = {}
          /\ ~out_file.written /\ out_file.content = EmptyDict
    /\ (argc = 2 /\ pc = "done") =>
          out_file = [exists |-> TRUE, written |-> TRUE, content |-> merged]

\* the usage message, printed for three arguments beside an existing mods
\* folder that lists archives
C6_Witness ==
    pc = "usage" /\ argc = 3 /\ dir_exists /\ Len(dir_files) > 0

\* the entries the claim selects in an archive: under data/<ns>/recipes/ or
\* data/<ns>/recipe/, ending in .json
ClaimedSelection(key) ==
    LET ns == IF key[1] = "mod" THEN Resolved(key[2]).s ELSE s_minecraft
        files == FileOf(key).files
    IN {i \in 1..Len(files) :
           /\ \/ StartsWith(files[i].name, s_data \o ns \o s_recipes)
              \/ StartsWith(files[i].name, s_data \o ns \o s_recipe)
           /\ EndsWith(files[i].name, s_json)}

\* C7 as stated: when the loop over an archive's entries has run to its end,
\* the entries parsed are exactly those under data/<ns>/recipes/ or
\* data/<ns>/recipe/ ending in .json, with ns = minecraft for the base archive.
C7_AsStated ==
    (pc \in {"mod_entries", "vanilla_entries"} /\ rf_idx > Len(recipe_files))
        => {r[3] : r \in {x \in parsed : KeyOfRec(x) = cur_jar}} = ClaimedSelection(cur_jar)

\* C10: when the run is done the file is written, and for every archive gone
\* through that holds a selected entry on which extract_output_ids raises: the
\* archive is in aborted, the selected entries before the first such entry that
\* name keys stand under them in the file, that entry was parsed and none after
\* it was; an archive without such an entry is not in aborted and all its
\* selected entries were parsed.
C10_RaiseEndsArchiveOnly ==
    pc = "done" =>
        /\ out_file.written
        /\ \A key \in {x \in opened : GoneThrough(x)} :
              LET sel == SelectedIn(key)
                  raising == {p \in 1..Len(sel) : RaisesOn(Rec(key, sel[p]))}
              IN IF raising = {}
                 THEN /\ key \notin aborted
                      /\ \A p \in 1..Len(sel) : Rec(key, sel[p]) \in parsed
                 ELSE LET first == CHOOSE p \in raising : \A q \in raising : p <= q IN
                      /\ key \in aborted
                      /\ \A p \in 1..Len(sel) : Rec(key, sel[p]) \in parsed <=> p <= first
                      /\ \A p \in 1..(first - 1) :
                            \A k \in KeysNamed(Rec(key, sel[p])) :
                                /\ k \in DOMAIN out_file.content
                                /\ Rec(key, sel[p]) \in Range(out_file.content[k])

\* a mod archive ended by a raising entry, its earlier record in the file, its
\* later entry not parsed, and the base archive's records in the file as well
C10_Witness ==
    /\ pc = "done" /\ out_file.written
    /\ \E key \in aborted :
          /\ key[1] = "mod"
          /\ \E a \in RecsOf(out_file.content) : KeyOfRec(a) = key
          /\ \E p \in 1..Len(SelectedIn(key)) : Rec(key, SelectedIn(key)[p]) \notin parsed
    /\ \E b \in RecsOf(out_file.content) : b[1] = "base"

=============================================================================
